---- MODULE Spec2Model ----
(***************************************************************************)
(* pybdist: the safe file writer (util.py), the license writer             *)
(* (documents.py) and the artifact reconciliation of googlecode_update.py. *)
(*                                                                         *)
(* Text is a sequence of characters.  "nl" is the newline, "m" stands for  *)
(* one occurrence of MAGIC_NAME (the generated-file marker), every other   *)
(* string is an ordinary character.  A path is <<directory, base name>>.   *)
(* The file system is a function whose domain is the set of existing       *)
(* paths.  The code runs under Python 3 (its shebang and f-strings): names *)
(* and codecs Python 3 lacks raise where the code uses them, and what      *)
(* urlopen().read() returns is bytes, on which a str pattern raises.  What *)
(* the collaborators do (whether a fetch succeeds and what the page holds, *)
(* googlecode_upload.upload, the operator's answer, directory listings,    *)
(* file times) is input.                                                   *)
(*                                                                         *)
(* Spec runs the document operations (util.py, documents.py); SpecSync     *)
(* runs one process of googlecode_update.py: the re-labeling pass, or a    *)
(* batch of calls of its other functions.                                  *)
(***************************************************************************)
EXTENDS Integers, Sequences, FiniteSets, TLC

VARIABLES
  cwd,        \* the working directory: the project's, or the temp directory itself
  xdev,       \* TRUE when "proj" and the temp directory are on different file systems
  fs,         \* the file system: [existing paths -> content]
  tmpdir,     \* whether <gettempdir()>/pybdist exists
  fsPre,      \* fs when the last operation started
  op,         \* the last operation and its arguments
  obs,        \* what the last operation did: prompts, renames, reads, exception
  runs,       \* number of operations run so far
  feed,       \* the fetch of the downloads feed: [ok, err, entries], err what a failed fetch raises
  dist,       \* the local artifact directory: [existing file names -> content]
  distDir,    \* whether the directory 'dist' exists
  dist0,      \* dist when the process started
  pc,         \* the process of googlecode_update: idle, between calls, done or dead
  call,       \* the function of googlecode_update called last
  calls,      \* number of calls made so far
  lst,        \* remove_featured_labels: the filtered list (items are mutated in place)
  except_list,\* remove_featured_labels: the exclusion list [none, names]
  uploads,    \* every call of googlecode_upload.upload, in order, with its result
  fetched,    \* every GET of an artifact URL by download_file, in order
  checked,    \* the last call of maybe_download_file: what it saw and did
  out,        \* diagnostics printed by maybe_upload_file on a failed upload
  exit        \* how the process ended: "" (running or returned), an exit status, an exception

docVars == <<cwd, xdev, fs, tmpdir, fsPre, op, obs, runs>>
syncVars == <<feed, dist, distDir, dist0, pc, call, calls, lst, except_list, uploads, fetched,
              checked, out, exit>>
vars == <<docVars, syncVars>>

None == "None"

\* ------------------------------------------------------------------ bounds
MaxRuns == 1

\* ------------------------------------------------------------------ text
MAGIC_NAME == "m"
NL == "nl"

RECURSIVE Join(_)
\* '\n'.join(lines)
Join(lines) ==
  IF lines = <<>> THEN <<>>
  ELSE IF Len(lines) = 1 THEN lines[1]
  ELSE lines[1] \o <<NL>> \o Join(Tail(lines))

RECURSIVE Split(_)
\* txt.split('\n'): never empty, ''.split('\n') is ['']
Split(txt) ==
  IF \A i \in 1..Len(txt) : txt[i] # NL THEN <<txt>>
  ELSE LET i == CHOOSE k \in 1..Len(txt) :
                  txt[k] = NL /\ \A j \in 1..(k-1) : txt[j] # NL
       IN <<SubSeq(txt, 1, i-1)>> \o Split(SubSeq(txt, i+1, Len(txt)))

RECURSIVE FileLines(_)
\* iterating an open text file: each line keeps its newline, '' has no line
FileLines(txt) ==
  IF txt = <<>> THEN <<>>
  ELSE IF \A i \in 1..Len(txt) : txt[i] # NL THEN <<txt>>
  ELSE LET i == CHOOSE k \in 1..Len(txt) :
                  txt[k] = NL /\ \A j \in 1..(k-1) : txt[j] # NL
       IN <<SubSeq(txt, 1, i)>> \o FileLines(SubSeq(txt, i+1, Len(txt)))

\* MAGIC_NAME in line
InLine(needle, line) == \E i \in 1..Len(line) : line[i] = needle

\* yn.lower()
Lower(yn) == IF yn = "Y" THEN "y" ELSE IF yn = "N" THEN "n" ELSE yn

\* ------------------------------------------------------------------ paths
\* the project directory, and <tempfile.gettempdir()>/pybdist
ProjDir == "proj"
TmpDir == "tmp"
OutTempName == <<TmpDir, "tmp.tmp">>
Basename(path) == path[2]
Dirname(path) == path[1]
\* a relative name resolved against the working directory
Abs(d, base) == <<d, base>>

Exists(f, path) == path \in DOMAIN f
WriteFile(f, path, txt) ==
  [q \in DOMAIN f \cup {path} |-> IF q = path THEN txt ELSE f[q]]
Unlink(f, path) == [q \in DOMAIN f \ {path} |-> f[q]]
\* os.rename within one file system: dst is replaced, src = dst changes nothing
Rename(f, src, dst) ==
  IF src = dst THEN f
  ELSE [q \in (DOMAIN f \ {src}) \cup {dst} |-> IF q = dst THEN f[src] ELSE f[q]]
\* os.rename raises OSError (EXDEV) across file systems
CrossDevice(x, src, dst) == x /\ Dirname(src) # Dirname(dst)

\* ------------------------------------------------------------------ util.py
NoObs == [prompted |-> FALSE, renames |-> <<>>, unlinked |-> FALSE, reads |-> <<>>,
          writer |-> 0, result |-> "", exc |-> ""]

\* the marker check with can_overwrite never reset to False for an existing file
can_overwrite_unset(f, fname) == TRUE

\* lines 48-54: the marker check
can_overwrite(f, fname) ==
  IF Exists(f, fname)
  THEN \E i \in 1..Len(FileLines(f[fname])) : InLine(MAGIC_NAME, FileLines(f[fname])[i])
  ELSE TRUE

RECURSIVE ByteLen(_)
\* os.stat(f).st_size: the marker '`pybdist`' is 9 bytes, any other character 1
ByteLen(txt) ==
  IF txt = <<>> THEN 0
  ELSE (IF Head(txt) = MAGIC_NAME THEN 9 ELSE 1) + ByteLen(Tail(txt))

\* a comparison that trusts the stat signature alone
filecmp_stat_only(a, b, sameMtime) == ByteLen(a) = ByteLen(b) /\ sameMtime

\* filecmp.cmp(f1, f2), shallow: equal stat signatures (size and mtime) count as
\* equal files, different sizes as different files, otherwise the bytes decide
filecmp_cmp(a, b, sameMtime) ==
  IF ByteLen(a) = ByteLen(b) /\ sameMtime THEN TRUE
  ELSE IF ByteLen(a) # ByteLen(b) THEN FALSE
  ELSE a = b

\* lines 79-85: back up the old file, move the candidate into place
replace_file(w, x, fname) ==
  LET backup_name == <<TmpDir, Basename(fname)>>
  IN IF Exists(w.fs, fname)
     THEN IF CrossDevice(x, fname, backup_name)
          THEN [w EXCEPT !.o.exc = "OSError", !.o.result = "raised"]
          ELSE LET f1 == Rename(w.fs, fname, backup_name)
                   r1 == Append(w.o.renames, <<fname, backup_name>>)
               IN [w EXCEPT !.fs = Rename(f1, OutTempName, fname),
                            !.o.renames = Append(r1, <<OutTempName, fname>>),
                            !.o.result = "written"]
     ELSE IF CrossDevice(x, OutTempName, fname)
          THEN [w EXCEPT !.o.exc = "OSError", !.o.result = "raised"]
          ELSE [w EXCEPT !.fs = Rename(w.fs, OutTempName, fname),
                         !.o.renames = Append(w.o.renames, <<OutTempName, fname>>),
                         !.o.result = "written"]

\* _safe_overwrite(lines, fname); w = [fs, tmpdir, o], yn the operator's answer if
\* asked, sameMtime whether candidate and destination carry the same mtime
safe_overwrite(w, x, lines, fname, yn, sameMtime) ==
  LET w0 == [w EXCEPT !.o.writer = @ + 1]
  IN IF ~can_overwrite(w0.fs, fname)
     THEN [w0 EXCEPT !.o.result = "refused"]
     ELSE LET w1 == [w0 EXCEPT !.tmpdir = TRUE,
                               !.fs = WriteFile(w0.fs, OutTempName, Join(lines))]
          IN IF Exists(w1.fs, fname)
             THEN IF filecmp_cmp(w1.fs[OutTempName], w1.fs[fname], sameMtime)
                  THEN [w1 EXCEPT !.fs = Unlink(w1.fs, OutTempName),
                                  !.o.unlinked = TRUE, !.o.result = "same"]
                  ELSE IF Lower(yn) # "y"
                       THEN [w1 EXCEPT !.fs = Unlink(w1.fs, OutTempName),
                                       !.o.prompted = TRUE, !.o.unlinked = TRUE,
                                       !.o.result = "declined"]
                       ELSE replace_file([w1 EXCEPT !.o.prompted = TRUE], x, fname)
             ELSE replace_file(w1, x, fname)

\* ------------------------------------------------------------------ documents.py
\* LICENSES, in the dictionary's order.  key: the regular expression, as the atoms
\* it needs in order ('GPL.*2' needs GPL and later 2); src: where the template is
\* ("http" url or bundled "file"); rot13: the file name ends with 'rot13';
\* y: the year pattern ("lit" a literal, "tail" 'END OF TERMS.+', "empty" '');
\* n: the holder pattern ("lit" a literal, "empty" '')
LICENSES == <<
  [key |-> <<"APACHE">>,   src |-> "file", rot13 |-> TRUE,  y |-> "lit",   n |-> "lit"],
  [key |-> <<"ARTISTIC">>, src |-> "http", rot13 |-> FALSE, y |-> "lit",   n |-> "lit"],
  [key |-> <<"GPL", "2">>, src |-> "http", rot13 |-> FALSE, y |-> "tail",  n |-> "empty"],
  [key |-> <<"GPL", "3">>, src |-> "http", rot13 |-> FALSE, y |-> "tail",  n |-> "empty"],
  [key |-> <<"LGPL">>,     src |-> "http", rot13 |-> FALSE, y |-> "empty", n |-> "empty"],
  [key |-> <<"MIT">>,      src |-> "file", rot13 |-> TRUE,  y |-> "lit",   n |-> "lit"],
  [key |-> <<"MOZILLA">>,  src |-> "http", rot13 |-> FALSE, y |-> "empty", n |-> "empty"],
  [key |-> <<"BSD">>,      src |-> "file", rot13 |-> TRUE,  y |-> "lit",   n |-> "lit"] >>

\* re.IGNORECASE: the words of a license string, case folded
Fold(word) ==
  CASE word = "Apache" -> "APACHE"
    [] word = "apache" -> "APACHE"
    [] word = "Artistic" -> "ARTISTIC"
    [] word = "gpl" -> "GPL"
    [] word = "lgpl" -> "LGPL"
    [] word = "mit" -> "MIT"
    [] word = "Mozilla" -> "MOZILLA"
    [] word = "bsd" -> "BSD"
    [] OTHER -> word

\* the regular expression atom occurs in the word ('GPL' occurs in 'LGPL')
Occurs(atom, word) ==
  \/ Fold(word) = atom
  \/ atom = "GPL" /\ Fold(word) = "LGPL"

\* re.search(regex, lic_text, re.IGNORECASE) on a license string given as its words
re_search(key, lic_text) ==
  IF Len(key) = 1
  THEN \E i \in 1..Len(lic_text) : Occurs(key[1], lic_text[i])
  ELSE \E i \in 1..Len(lic_text) : \E j \in (i+1)..Len(lic_text) :
         Occurs(key[1], lic_text[i]) /\ Occurs(key[2], lic_text[j])

\* the lookup with to_fetch = info assigned outside the if: without a match the
\* last entry of the table is left in to_fetch
license_lookup_last(lic_text) ==
  IF \E i \in 1..Len(LICENSES) : re_search(LICENSES[i].key, lic_text)
  THEN CHOOSE i \in 1..Len(LICENSES) :
         /\ re_search(LICENSES[i].key, lic_text)
         /\ \A j \in 1..(i-1) : ~re_search(LICENSES[j].key, lic_text)
  ELSE Len(LICENSES)

\* lines 198-202: the first entry whose key matches, 0 for to_fetch = None
license_lookup(lic_text) ==
  IF \E i \in 1..Len(LICENSES) : re_search(LICENSES[i].key, lic_text)
  THEN CHOOSE i \in 1..Len(LICENSES) :
         /\ re_search(LICENSES[i].key, lic_text)
         /\ \A j \in 1..(i-1) : ~re_search(LICENSES[j].key, lic_text)
  ELSE 0

\* _find_license(): what it can return, os.listdir('.') being in no fixed order;
\* <<>> is the empty string
IsLicenseName(base) == base \in {"LICENSE-2.0.txt", "license.txt"}
find_license(f, d) ==
  LET hits == {p \in DOMAIN f : Dirname(p) = d /\ IsLicenseName(Basename(p))}
  IN IF hits = {} THEN {<<>>} ELSE hits

RECURSIVE SubLit(_, _, _)
\* re.sub of a literal pattern: every occurrence is replaced
SubLit(pat, repl, txt) ==
  IF txt = <<>> THEN <<>>
  ELSE (IF Head(txt) = pat THEN <<repl>> ELSE <<Head(txt)>>) \o SubLit(pat, repl, Tail(txt))

\* re.sub of 'END OF TERMS.+' with DOTALL: from the first "E" that has a character
\* after it to the end of the text
SubTail(repl, txt) ==
  IF \E i \in 1..(Len(txt)-1) : txt[i] = "E"
  THEN LET i == CHOOSE k \in 1..(Len(txt)-1) :
                  txt[k] = "E" /\ \A j \in 1..(k-1) : txt[j] # "E"
       IN SubSeq(txt, 1, i-1) \o <<repl>>
  ELSE txt

RECURSIVE SubEmpty(_, _)
\* re.sub of the empty pattern: the replacement goes before every character and
\* at the end
SubEmpty(repl, txt) ==
  IF txt = <<>> THEN <<repl>>
  ELSE <<repl, Head(txt)>> \o SubEmpty(repl, Tail(txt))

\* lines 220-222: "Y" is an occurrence of the rule's literal year pattern
sub_year(rule, txt) ==
  IF rule.y = "lit" THEN SubLit("Y", "yr", txt)
  ELSE IF rule.y = "tail" THEN SubTail("yr", txt)
  ELSE SubEmpty("yr", txt)

\* lines 223-230: "N" is an occurrence of the rule's literal holder pattern
sub_name(rule, txt) ==
  IF rule.n = "lit" THEN SubLit("N", "hold", txt)
  ELSE txt \o <<"sp", "hold">>

\* out_license(setup).  found: what _find_license() returned; readOk: whether
\* reading the template source succeeds (else urlopen or open raises); tpl: its text.
\* urlopen(url).read() returns bytes, open(...).read() returns str
out_license(w, x, d, lic_text, found, readOk, tpl, yn, sameMtime) ==
  LET to_fetch == license_lookup(lic_text)
  IN IF to_fetch = 0
     THEN [w EXCEPT !.o.exc = "DocumentsException", !.o.result = "raised"]
     ELSE LET rule == LICENSES[to_fetch]
              license_fname == IF found = <<>> THEN Abs(d, "LICENSE-2.0.txt") ELSE found
              w1 == [w EXCEPT !.o.reads = Append(@, rule.src)]
          IN IF ~readOk
             THEN [w1 EXCEPT !.o.exc = IF rule.src = "http" THEN "URLError" ELSE "OSError",
                             !.o.result = "raised"]
             ELSE IF rule.src = "http"
             THEN \* line 222: re_yyyy is a str pattern and txt is bytes, so sub raises
                  [w1 EXCEPT !.o.exc = "TypeError", !.o.result = "raised"]
             ELSE IF rule.rot13
             THEN \* line 218: str.encode('rot13') is no text encoding in Python 3
                  [w1 EXCEPT !.o.exc = "LookupError", !.o.result = "raised"]
             ELSE safe_overwrite(w1, x, Split(sub_name(rule, sub_year(rule, tpl))),
                                 license_fname, yn, sameMtime)

\* _set_locale(setup, lang), line 177: install(str=True) is no keyword of Python 3's
\* gettext, so the call raises TypeError before anything is rendered or written
set_locale(w) == [w EXCEPT !.o.exc = "TypeError", !.o.result = "raised"]

\* out_readme(setup): the first _set_locale raises (line 186)
out_readme(w) == set_locale(w)

\* out_install(setup): the first _set_locale raises (line 293)
out_install(w) == set_locale(w)

\* ------------------------------------------------------------------ operations on documents
L_e == <<>>
L_x == <<"x">>
L_m == <<"m">>
\* candidate line lists handed to the writer
CandidateLines ==
  { <<>>, <<L_e>>, <<L_x>>, <<L_x, L_m>>, <<L_m, L_x>>, <<L_x, L_x>>, <<<<"x", "m">>, L_e>> }
\* what a file can hold before the tool runs
InitContents == { <<"x", "nl", "m">>, <<"m", "nl", "x">>, <<"x", "nl", "x">> }
Bases == {"README.rst", "LICENSE-2.0.txt", "license.txt"}
Answers == {"y", "Y", "n"}
\* license strings of setup.SETUP['license'], as words
LicTexts ==
  { <<"Apache", "2">>, <<"Artistic">>, <<"gpl", "3">>, <<"lgpl", "2">>, <<"lgpl">>,
    <<"3", "gpl">>, <<"Mozilla">>, <<"Proprietary">>, <<>> }
\* texts a template source can yield
Templates == { <<"x", "nl", "Y", "N">>, <<"x", "E", "nl", "x">>, <<"x">> }

NoOp == [name |-> "", fname |-> <<>>, cand |-> <<>>, lic |-> <<>>]
World == [fs |-> fs, tmpdir |-> tmpdir, o |-> NoObs]

Finish(w, o) ==
  /\ fsPre' = fs
  /\ fs' = w.fs
  /\ tmpdir' = w.tmpdir
  /\ obs' = w.o
  /\ op' = o
  /\ runs' = runs + 1
  /\ UNCHANGED <<cwd, xdev>>
  /\ UNCHANGED syncVars

\* the inputs a call reads: the operator is asked only on a conflict, the
\* license template is read only for a known license, and its text is there only
\* when the read succeeds
Asked(w) == w.o.prompted
AnswersOf(w) == IF Asked(w) THEN Answers ELSE {"n"}
ReadOf(lic) == IF license_lookup(lic) = 0 THEN {TRUE} ELSE BOOLEAN
TemplatesOf(lic, readOk) ==
  IF license_lookup(lic) = 0 \/ ~readOk THEN {<<"x">>} ELSE Templates

\* util._safe_overwrite(lines, fname) on a file of the working directory
SafeOverwrite ==
  /\ runs < MaxRuns
  /\ \E lines \in CandidateLines, b \in Bases, sameMtime \in BOOLEAN :
       \E yn \in AnswersOf(safe_overwrite(World, xdev, lines, Abs(cwd, b), "n", sameMtime)) :
         Finish(safe_overwrite(World, xdev, lines, Abs(cwd, b), yn, sameMtime),
                [name |-> "_safe_overwrite", fname |-> Abs(cwd, b), cand |-> Join(lines),
                 lic |-> <<>>])

\* the destination out_license chooses (lines 206-211)
license_dest(found) == IF found = <<>> THEN Abs(cwd, "LICENSE-2.0.txt") ELSE found

\* documents.out_license(setup)
OutLicense ==
  /\ runs < MaxRuns
  /\ \E lic \in LicTexts, found \in find_license(fs, cwd), sameMtime \in BOOLEAN :
       \E readOk \in ReadOf(lic) : \E tpl \in TemplatesOf(lic, readOk) :
         \E yn \in AnswersOf(out_license(World, xdev, cwd, lic, found, readOk, tpl, "n",
                                         sameMtime)) :
           Finish(out_license(World, xdev, cwd, lic, found, readOk, tpl, yn, sameMtime),
                  [name |-> "out_license", fname |-> license_dest(found),
                   cand |-> <<>>, lic |-> lic])

\* documents.out_readme(setup)
OutReadme ==
  /\ runs < MaxRuns
  /\ Finish(out_readme(World),
            [NoOp EXCEPT !.name = "out_readme", !.fname = Abs(cwd, "README.rst")])

\* documents.out_install(setup)
OutInstall ==
  /\ runs < MaxRuns
  /\ Finish(out_install(World),
            [NoOp EXCEPT !.name = "out_install", !.fname = Abs(cwd, "INSTALL.rst")])

\* ------------------------------------------------------------------ googlecode_update.py
MaxFeed == 2
MaxCalls == 2

Fnames == {"a.zip", "b.zip", "c.zip"}
Contents == {"c1", "c2"}
\* hashlib.sha1 of a file's bytes, as the hex digest
SHA1(content) == IF content = "c1" THEN "abc123" ELSE "def456"
Summary(fname) == <<"summary", fname>>
LabelLists == { <<"Featured">>, <<"Type-Archive", "Featured">>, <<"Type-Archive">> }
\* what urlopen of the detail page can do: raise URLError (no network), raise
\* HTTPError, or yield a page without a 'SHA1 Checksum:' field or with one (the
\* checksum the page shows)
DetailOutcomes == {"URLError", "HTTPError", "nosha", "abc123", "def456"}

Range(seq) == {seq[i] : i \in 1..Len(seq)}

\* what a failed fetch of urlopen(url) / fin.read() raises: URLError (no route, name
\* not resolved, connection refused: an OSError while the request is sent), its
\* subclass HTTPError, or an exception urllib does not wrap: RemoteDisconnected
\* from getresponse(), IncompleteRead from read()
FetchErrors == {"URLError", "HTTPError", "RemoteDisconnected", "IncompleteRead"}
\* line 28: except urllib.error.URLError
CaughtFetchErrors == {"URLError", "HTTPError"}

\* a listing that answers a failed fetch with a remembered entry
get_download_list_cached(f) ==
  IF f.ok THEN [exc |-> "TypeError", lst |-> <<>>]
  ELSE IF f.err \in CaughtFetchErrors
  THEN [exc |-> "",
        lst |-> << [project_name |-> "pybdist", fname |-> "a.zip",
                    labels |-> <<"Featured">>, summary |-> Summary("a.zip")] >>]
  ELSE [exc |-> f.err, lst |-> <<>>]

\* get_download_list(project_name), as [exc, lst].  A fetch that fails with
\* URLError (HTTPError being one) gives text = '', in which the entry pattern finds
\* nothing; any other exception of the fetch is not caught and leaves the function;
\* a fetch that succeeds gives the bytes read() returns, and the str pattern of
\* line 30 raises TypeError on them at line 33, whatever the feed holds
get_download_list(f) ==
  IF f.ok THEN [exc |-> "TypeError", lst |-> <<>>]
  ELSE IF f.err \in CaughtFetchErrors THEN [exc |-> "", lst |-> <<>>]
  ELSE [exc |-> f.err, lst |-> <<>>]

\* _filter_featured_downloads(lst)
filter_featured_downloads(l) ==
  LET keep(item) == "Featured" \in Range(item.labels) IN SelectSeq(l, keep)

\* list.remove(x): the first occurrence goes
ListRemove(l, x) ==
  LET i == CHOOSE k \in 1..Len(l) : l[k] = x /\ \A j \in 1..(k-1) : l[j] # x
  IN SubSeq(l, 1, i-1) \o SubSeq(l, i+1, Len(l))

\* get_file_details(project_name, fname): only HTTPError is caught (line 91) and
\* gives text = ''; a page that was read is bytes, and the str pattern of line 93
\* raises TypeError on it, with or without a checksum in the page
get_file_details(outcome) ==
  IF outcome = "URLError" THEN [exc |-> "URLError", sha1 |-> None]
  ELSE IF outcome = "HTTPError" THEN [exc |-> "", sha1 |-> None]
  ELSE [exc |-> "TypeError", sha1 |-> None]

\* a download that clears the stale local copy before it fetches
download_file_unlink(s, fname, fetchOk) ==
  [s EXCEPT !.dist = [q \in DOMAIN s.dist \ {fname} |-> s.dist[q]],
            !.fetched = Append(@, [fname |-> fname, ok |-> fetchOk]),
            !.distDir = TRUE,
            !.exc = IF fetchOk THEN "NameError" ELSE "URLError"]

\* download_file(project_name, fname, dist_dir); s = [dist, distDir, fetched,
\* checked, exc].  The GET comes first; line 116 calls file(), which Python 3 does
\* not define, so the call raises NameError once the directory is there and nothing
\* is written
download_file(s, fname, fetchOk) ==
  IF ~fetchOk
  THEN [s EXCEPT !.fetched = Append(@, [fname |-> fname, ok |-> FALSE]),
                 !.exc = "URLError"]
  ELSE [s EXCEPT !.fetched = Append(@, [fname |-> fname, ok |-> TRUE]),
                 !.distDir = TRUE,
                 !.exc = "NameError"]

\* lines 124-132: the local digest; None stands for hex_digest left unbound
\* (line 132 assigns hex_digext)
local_digest(s, fname, sha1) == IF sha1 # None THEN SHA1(s.dist[fname]) ELSE None

\* line 133: the test that decides the download
wants_download(hex_digest, sha1) == hex_digest = sha1

\* maybe_download_file(project_name, fname, dist_dir), for a file that exists;
\* checked records what the call saw and did
maybe_download_file(s, fname, outcome, fetchOk) ==
  LET details == get_file_details(outcome)
      hex_digest == IF details.exc = "" THEN local_digest(s, fname, details.sha1)
                    ELSE None
      r == IF details.exc # "" THEN [s EXCEPT !.exc = details.exc]
           ELSE IF hex_digest = None THEN [s EXCEPT !.exc = "UnboundLocalError"]
           ELSE IF wants_download(hex_digest, details.sha1)
           THEN download_file(s, fname, fetchOk)
           ELSE s
  IN [r EXCEPT !.checked = [fname |-> fname, outcome |-> outcome,
                            sha1 |-> details.sha1, hex_digest |-> hex_digest,
                            downloaded |-> r.fetched # s.fetched, exc |-> r.exc]]

\* googlecode_upload.upload(...) as update_file and maybe_upload_file call it: the
\* call and the (status, reason, url) it returned
UploadResults ==
  { [status |-> 201, reason |-> "Created", url |-> "url"],
    [status |-> 403, reason |-> "Forbidden", url |-> None] }
upload_call(by, fname, summary, labels, res) ==
  [by |-> by, fname |-> fname, summary |-> summary, labels |-> labels,
   status |-> res.status, reason |-> res.reason, url |-> res.url]

\* update_file(info, dist_dir, username, password): the result is dropped
update_file(u, info, res) ==
  Append(u, upload_call("update_file", info.fname, info.summary, info.labels, res))

NoCheck == [fname |-> "", outcome |-> "", sha1 |-> None, hex_digest |-> None,
            downloaded |-> FALSE, exc |-> ""]
Sync == [dist |-> dist, distDir |-> distDir, fetched |-> fetched, checked |-> checked,
         exc |-> ""]
\* line 198: except_list and item['fname'] in except_list
Excluded(ex, fname) == ~ex.none /\ ex.names # {} /\ fname \in ex.names

RECURSIVE ensure_local(_, _, _, _, _, _)
\* remove_featured_labels, lines 197-206, from item i on: download what is missing,
\* check what is there; outs[i] and oks[i] are what the network does for item i
ensure_local(s, l, ex, i, outs, oks) ==
  IF i > Len(l) \/ s.exc # "" THEN s
  ELSE IF Excluded(ex, l[i].fname) THEN ensure_local(s, l, ex, i + 1, outs, oks)
  ELSE IF l[i].fname \notin DOMAIN s.dist
  THEN ensure_local(download_file(s, l[i].fname, oks[i]), l, ex, i + 1, outs, oks)
  ELSE ensure_local(maybe_download_file(s, l[i].fname, outs[i], oks[i]),
                    l, ex, i + 1, outs, oks)

\* line 211: item['labels'].remove('Featured') on every item not excluded
relabel_items(l, ex) ==
  [i \in 1..Len(l) |->
     IF Excluded(ex, l[i].fname) THEN l[i]
     ELSE [l[i] EXCEPT !.labels = ListRemove(@, "Featured")]]

RECURSIVE relabel(_, _, _, _, _)
\* lines 208-213, from item i on: upload every item not excluded with its new labels
relabel(u, l, ex, i, ress) ==
  IF i > Len(l) THEN u
  ELSE IF Excluded(ex, l[i].fname) THEN relabel(u, l, ex, i + 1, ress)
  ELSE relabel(update_file(u, relabel_items(l, ex)[i], ress[i]), l, ex, i + 1, ress)

Feeds ==
  { [ok |-> FALSE, err |-> x, entries |-> <<>>] : x \in FetchErrors } \cup
  { [ok |-> TRUE, err |-> "", entries |-> e] :
      e \in { q \in UNION { [1..n -> [fname : Fnames, labels : LabelLists]] : n \in 0..MaxFeed } :
                \A i, j \in 1..Len(q) : i # j => q[i].fname # q[j].fname } }
Entry(e) == [project_name |-> "pybdist", fname |-> e.fname, labels |-> e.labels,
             summary |-> Summary(e.fname)]
\* except_list: None, [] or a list of names
NoExcept == [none |-> TRUE, names |-> {}]
ExceptLists == {NoExcept, [none |-> FALSE, names |-> {}], [none |-> FALSE, names |-> {"a.zip"}]}

DocsIdle ==
  /\ cwd = ProjDir /\ xdev = FALSE /\ fs = <<>> /\ tmpdir = FALSE /\ fsPre = <<>>
  /\ op = NoOp /\ obs = NoObs /\ runs = 0

InitSync ==
  /\ DocsIdle
  /\ feed = [ok |-> FALSE, err |-> "", entries |-> <<>>]
  /\ \E present \in SUBSET Fnames : dist \in [present -> Contents]
  /\ dist0 = dist
  /\ distDir \in (IF dist = <<>> THEN BOOLEAN ELSE {TRUE})
  /\ pc = "idle" /\ call = "" /\ calls = 0 /\ lst = <<>> /\ except_list = NoExcept
  /\ uploads = <<>> /\ fetched = <<>> /\ out = <<>> /\ exit = ""
  /\ checked = NoCheck

\* the state a call leaves, s being what it did to the files: an exception that
\* nothing catches ends the process
Step(s, nextpc) ==
  /\ dist' = s.dist
  /\ distDir' = s.distDir
  /\ fetched' = s.fetched
  /\ checked' = s.checked
  /\ IF s.exc # ""
     THEN pc' = "dead" /\ exit' = s.exc
     ELSE pc' = nextpc /\ exit' = exit

\* remove_featured_labels(project_name, user_name, password, except_list), the
\* process started by __main__: the listing, the first loop, the second loop
RemoveFeaturedLabels ==
  /\ pc = "idle" /\ calls = 0
  /\ \E f \in Feeds, ex \in ExceptLists :
       LET remote == [f EXCEPT !.entries = [i \in 1..Len(f.entries) |-> Entry(f.entries[i])]]
           got == get_download_list(remote)
           l == filter_featured_downloads(got.lst)
       IN \E outs \in [1..Len(l) -> DetailOutcomes], oks \in [1..Len(l) -> BOOLEAN],
             ress \in [1..Len(l) -> UploadResults] :
            LET s == IF got.exc # "" THEN [Sync EXCEPT !.exc = got.exc]
                     ELSE ensure_local(Sync, l, ex, 1, outs, oks)
            IN /\ feed' = remote
               /\ except_list' = ex
               /\ Step(s, "done")
               /\ lst' = IF s.exc = "" THEN relabel_items(l, ex) ELSE l
               /\ uploads' = IF s.exc = "" THEN relabel(uploads, l, ex, 1, ress)
                             ELSE uploads
  /\ call' = "remove_featured_labels" /\ calls' = calls + 1
  /\ UNCHANGED <<dist0, out>>
  /\ UNCHANGED docVars

\* download_file(project_name, fname, dist_dir), one call
DownloadFile ==
  /\ pc \in {"idle", "batch"} /\ calls < MaxCalls
  /\ \E fname \in Fnames, fetchOk \in BOOLEAN :
       Step(download_file(Sync, fname, fetchOk), "batch")
  /\ call' = "download_file" /\ calls' = calls + 1
  /\ UNCHANGED <<feed, dist0, lst, except_list, uploads, out>>
  /\ UNCHANGED docVars

\* maybe_download_file(project_name, fname, dist_dir), one call on a local file
MaybeDownloadFile ==
  /\ pc \in {"idle", "batch"} /\ calls < MaxCalls
  /\ \E fname \in DOMAIN dist, outcome \in DetailOutcomes, fetchOk \in BOOLEAN :
       Step(maybe_download_file(Sync, fname, outcome, fetchOk), "batch")
  /\ call' = "maybe_download_file" /\ calls' = calls + 1
  /\ UNCHANGED <<feed, dist0, lst, except_list, uploads, out>>
  /\ UNCHANGED docVars

\* update_file(info, dist_dir, username, password), one call
UpdateFile ==
  /\ pc \in {"idle", "batch"} /\ calls < MaxCalls
  /\ \E fname \in Fnames, labels \in LabelLists, res \in UploadResults :
       uploads' = update_file(uploads, Entry([fname |-> fname, labels |-> labels]), res)
  /\ pc' = "batch"
  /\ call' = "update_file" /\ calls' = calls + 1
  /\ UNCHANGED <<feed, dist, distDir, dist0, lst, except_list, fetched, checked, out, exit>>
  /\ UNCHANGED docVars

\* maybe_upload_file(project_name, dist_dir, fname, summary, labels, username,
\* password), one call
MaybeUploadFile ==
  /\ pc \in {"idle", "batch"} /\ calls < MaxCalls
  /\ \E fname \in Fnames, outcome \in DetailOutcomes, res \in UploadResults :
       LET details == get_file_details(outcome)
           labels == <<"Featured">>
           call_ == upload_call("maybe_upload_file", fname, Summary(fname), labels, res)
       IN IF details.exc # ""
          THEN /\ pc' = "dead" /\ exit' = details.exc
               /\ UNCHANGED <<uploads, out>>
          ELSE IF details.sha1 # None /\ fname \notin DOMAIN dist
          THEN \* line 144: open() of a missing file
               /\ pc' = "dead" /\ exit' = "FileNotFoundError"
               /\ UNCHANGED <<uploads, out>>
          ELSE IF details.sha1 = None \/ SHA1(dist[fname]) # details.sha1
          THEN /\ uploads' = Append(uploads, call_)
               /\ IF res.url = None
                  THEN /\ out' = Append(out, [status |-> res.status, reason |-> res.reason,
                                              fname |-> fname, project |-> "pybdist",
                                              summary |-> Summary(fname),
                                              labels |-> labels])
                       /\ pc' = "dead" /\ exit' = "SystemExit(-1)"
                  ELSE /\ pc' = "batch" /\ UNCHANGED <<out, exit>>
          ELSE /\ pc' = "batch" /\ UNCHANGED <<uploads, out, exit>>
  /\ call' = "maybe_upload_file" /\ calls' = calls + 1
  /\ UNCHANGED <<feed, dist, distDir, dist0, lst, except_list, fetched, checked>>
  /\ UNCHANGED docVars

NextSync ==
  RemoveFeaturedLabels \/ DownloadFile \/ MaybeDownloadFile \/ UpdateFile \/ MaybeUploadFile

SpecSync == InitSync /\ [][NextSync]_vars

SyncIdle ==
  /\ feed = [ok |-> FALSE, err |-> "", entries |-> <<>>]
  /\ dist = <<>> /\ dist0 = <<>> /\ distDir = FALSE
  /\ pc = "off" /\ call = "" /\ calls = 0 /\ lst = <<>> /\ except_list = NoExcept
  /\ uploads = <<>> /\ fetched = <<>> /\ out = <<>> /\ exit = ""
  /\ checked = NoCheck

InitDocs ==
  /\ cwd \in {ProjDir, TmpDir}
  /\ xdev \in (IF cwd = ProjDir THEN BOOLEAN ELSE {FALSE})
  /\ \E present \in SUBSET {"README.rst", "LICENSE-2.0.txt"} :
       fs \in [{Abs(cwd, b) : b \in present} -> InitContents]
  /\ tmpdir \in (IF cwd = ProjDir THEN BOOLEAN ELSE {TRUE})
  /\ fsPre = fs
  /\ op = NoOp
  /\ obs = NoObs
  /\ runs = 0

Init == InitDocs /\ SyncIdle

Next == SafeOverwrite \/ OutLicense \/ OutReadme \/ OutInstall

Spec == Init /\ [][Next]_vars

\* ------------------------------------------------------------------ properties
\* the destination of the last writer call, as it was before the call
Called == obs.writer > 0
Dest == op.fname
Old == fsPre[Dest]
BackupName == <<TmpDir, Basename(Dest)>>
NoMarker(txt) == \A i \in 1..Len(txt) : txt[i] # MAGIC_NAME

\* C1: a call of the safe writer on an existing destination none of whose lines
\* contains the marker leaves the destination's content as it was, asks the
\* operator nothing and makes no backup (nothing in the file system changes)
C1_UnmarkedLeftAlone ==
  (Called /\ Exists(fsPre, Dest) /\ NoMarker(Old))
    => /\ Exists(fs, Dest) /\ fs[Dest] = Old
       /\ ~obs.prompted
       /\ obs.renames = <<>>
       /\ fs = fsPre
C1_Witness ==
  /\ op.name = "_safe_overwrite" /\ Called
  /\ Exists(fsPre, Dest) /\ NoMarker(Old) /\ op.cand # Old
  /\ obs.result = "refused"

\* C2: a call of the safe writer on an existing destination that carries the
\* marker, with a candidate byte-identical to it, asks the operator nothing,
\* renames nothing, removes the temporary candidate and leaves the destination
\* as it was
C2_IdenticalIsNoOp ==
  (Called /\ Exists(fsPre, Dest) /\ ~NoMarker(Old) /\ op.cand = Old)
    => /\ ~obs.prompted
       /\ obs.renames = <<>>
       /\ obs.unlinked /\ ~Exists(fs, OutTempName)
       /\ Exists(fs, Dest) /\ fs[Dest] = Old
C2_Witness ==
  /\ op.name = "_safe_overwrite" /\ Called
  /\ Exists(fsPre, Dest) /\ ~NoMarker(Old) /\ op.cand = Old
  /\ obs.result = "same"

\* no generator reaches the safe writer: out_readme and out_install raise in
\* _set_locale, out_license raises on the template it read or cannot read it, so
\* none of them creates or changes a file
GeneratorsNeverWrite ==
  (op.name \in {"out_license", "out_readme", "out_install"})
    => /\ obs.writer = 0 /\ fs = fsPre
       /\ obs.exc \in {"TypeError", "LookupError", "DocumentsException", "URLError",
                       "OSError"}

\* C6: a call of the safe writer on an existing destination never loses the
\* destination's previous content: afterwards it is still the destination's
\* content, or it is the content of the backup file named by the destination's
\* base name in the temp directory while the destination holds the candidate
C6_OldContentKept ==
  (Called /\ Exists(fsPre, Dest))
    => \/ Exists(fs, Dest) /\ fs[Dest] = Old
       \/ /\ Exists(fs, BackupName) /\ fs[BackupName] = Old
          /\ Exists(fs, Dest) /\ fs[Dest] = op.cand

\* the previous content is kept whenever the destination lies outside the temp
\* directory (there the backup name differs from the destination)
OldContentKeptOutsideTmp == (cwd = ProjDir) => C6_OldContentKept

\* C10: out_license with a license string that matches no key of the table raises
\* the unknown-license error and does nothing else: no file is created or changed,
\* no template is read from the network or the bundle, the writer is not called
NoKeyMatches(lic_text) == \A i \in 1..Len(LICENSES) : ~re_search(LICENSES[i].key, lic_text)
C10_UnknownLicense ==
  (op.name = "out_license" /\ NoKeyMatches(op.lic))
    => /\ obs.exc = "DocumentsException"
       /\ fs = fsPre
       /\ obs.reads = <<>>
       /\ obs.writer = 0 /\ ~obs.prompted /\ obs.renames = <<>>
C10_Witness ==
  /\ op.name = "out_license" /\ op.lic = <<"Proprietary">>
  /\ obs.exc = "DocumentsException" /\ fsPre # <<>>

\* C3: maybe_download_file on a file that exists locally, the remote detail page
\* carrying a checksum, downloads exactly when the SHA1 of the local file differs
\* from the remote checksum
C3_ChecksumDecidesDownload ==
  (checked.fname # "" /\ checked.outcome \in {SHA1(c) : c \in Contents})
    => (checked.downloaded <=> SHA1(dist0[checked.fname]) # checked.outcome)

\* C5: in a batch of uploads, the re-labeling pass included, an upload that returns
\* no URL is the last one attempted: its status, reason and context are reported
\* and the process ends with a non-zero exit status
C5_FailedUploadStopsBatch ==
  \A i \in 1..Len(uploads) :
    uploads[i].url = None
      => /\ i = Len(uploads)
         /\ pc = "dead" /\ exit = "SystemExit(-1)"
         /\ \E k \in 1..Len(out) :
              /\ out[k].status = uploads[i].status /\ out[k].reason = uploads[i].reason
              /\ out[k].fname = uploads[i].fname /\ out[k].project = "pybdist"

\* C7: no step of the reconciliation removes a file of the local artifact
\* directory: every name that was there when the process started is still there
C7_LocalFilesNeverShrink == DOMAIN dist0 \subseteq DOMAIN dist
C7_Witness ==
  /\ call = "download_file" /\ exit = "NameError"
  /\ \E i \in 1..Len(fetched) :
       /\ fetched[i].ok
       /\ fetched[i].fname \in DOMAIN dist0 /\ fetched[i].fname \in DOMAIN dist

\* C8: when the detail fetch fails (network unavailable or HTTP error) or the page
\* has no checksum, maybe_download_file does not fail: the checksum is absent and
\* the artifact is downloaded again
C8_AbsentChecksumRedownloads ==
  (checked.fname # "" /\ checked.outcome \in {"URLError", "HTTPError", "nosha"})
    => /\ checked.exc = ""
       /\ checked.sha1 = None
       /\ checked.downloaded

\* C9: when the re-labeling pass has ended and the feed was fetched, every listed
\* artifact that carries 'Featured' and is not excluded has been uploaded exactly
\* once, with its summary and its labels less 'Featured'; every other listed
\* artifact has been neither downloaded nor uploaded
InPass == call = "remove_featured_labels"
UploadsOf(fname) == {k \in 1..Len(uploads) : uploads[k].fname = fname}
C9_FeaturedReuploadedOnce ==
  (InPass /\ pc \in {"done", "dead"} /\ feed.ok)
    => \A i \in 1..Len(feed.entries) :
         LET e == feed.entries[i]
         IN IF "Featured" \in Range(e.labels) /\ ~Excluded(except_list, e.fname)
            THEN /\ Cardinality(UploadsOf(e.fname)) = 1
                 /\ \A k \in UploadsOf(e.fname) :
                      /\ uploads[k].summary = e.summary
                      /\ "Featured" \notin Range(uploads[k].labels)
                      /\ Range(uploads[k].labels) = Range(e.labels) \ {"Featured"}
            ELSE /\ UploadsOf(e.fname) = {}
                 /\ \A k \in 1..Len(fetched) : fetched[k].fname # e.fname

\* C11: when the feed fetch of a re-labeling pass fails with a network error,
\* get_download_list returns the empty list and nothing is raised, and the pass
\* downloads nothing, uploads nothing and leaves the local directory as it was
C11_FeedFailureIsEmptyListing ==
  (InPass /\ ~feed.ok)
    => /\ get_download_list(feed) = [exc |-> "", lst |-> <<>>] /\ lst = <<>>
       /\ exit = "" /\ pc = "done"
       /\ fetched = <<>>
       /\ uploads = <<>>
       /\ dist = dist0

\* C11 as amended: when the feed fetch fails with URLError (HTTPError included),
\* get_download_list returns the empty list, nothing is raised and the pass returns;
\* when it fails with any other exception, that exception leaves
\* get_download_list and ends the pass; in both cases the pass downloads nothing,
\* uploads nothing and leaves the local directory as it was
C11_CaughtFeedFailureIsEmptyListing ==
  (InPass /\ ~feed.ok)
    => /\ lst = <<>>
       /\ fetched = <<>>
       /\ uploads = <<>>
       /\ dist = dist0
       /\ IF feed.err \in CaughtFetchErrors
          THEN /\ get_download_list(feed) = [exc |-> "", lst |-> <<>>]
               /\ exit = "" /\ pc = "done"
          ELSE /\ get_download_list(feed) = [exc |-> feed.err, lst |-> <<>>]
               /\ exit = feed.err /\ pc = "dead"
C11_Witness ==
  /\ InPass /\ ~feed.ok /\ feed.err = "URLError" /\ pc = "done"
  /\ dist0 # <<>> /\ dist = dist0
  /\ uploads = <<>> /\ fetched = <<>>

====
